---- MODULE Spec2Model ----
(***************************************************************************)
(* Model of graphMaker.py: the sparse-to-dense cumulative fill             *)
(* (update_cumulative), the box-score stat lookup                          *)
(* (extract_player_stat_from_boxscore), the per-player event fetch         *)
(* (get_player_stats_from_schedule) and the driver with its pickled table  *)
(* (create_cumulative_stats_graph).                                        *)
(*                                                                         *)
(* Dates are day numbers.  A DataFrame's RangeIndex is 0-based, so the     *)
(* 'Date' column and every player column are functions over 0..n-1.        *)
(* Stat values are integers (the code's float(...) of a numeric entry).    *)
(***************************************************************************)
EXTENDS Integers, Sequences, FiniteSets, TLC

(***************************************************************************)
(* Bounds of the explored inputs.                                          *)
(***************************************************************************)
\* number of days of the date axis explored for update_cumulative
AxisLen == 5
\* longest stat_dates list handed to update_cumulative
MaxEvents == 3
\* per-game stat values explored (0 is what a gauge source reports as "no data")
StatValues == {0, 1, 2}
\* most player entries per team of a box score
MaxRoster == 1
\* last day a schedule for the axis can name
MaxDay == 3
\* most games of a schedule for the axis
MaxSched == 2

None == "None"

(***************************************************************************)
(* pandas helpers                                                          *)
(***************************************************************************)
\* pd.date_range(start, end): one entry per calendar day, both ends included
DateRange(start, end) == [i \in 0..(end - start) |-> start + i]

\* len(df)
DfLen(df_dates) == Cardinality(DOMAIN df_dates)

\* df[player] = 0
ZeroColumn(df_dates) == [i \in DOMAIN df_dates |-> 0]

\* df_dates[df_dates == stat_date].index
Matches(df_dates, stat_date) == {i \in DOMAIN df_dates : df_dates[i] = stat_date}

\* matches.index[0]
FirstIndex(matches) == CHOOSE i \in matches : \A j \in matches : i <= j

(***************************************************************************)
(* update_cumulative: the locals of the loop are total, last_idx and the   *)
(* player's column; assigned collects the index labels written by the      *)
(* df.loc[...] assignments of the fill.                                    *)
(***************************************************************************)
FillStart(df_dates) ==
    [total |-> 0, last_idx |-> 0, column |-> ZeroColumn(df_dates), assigned |-> {}]

\* FillStep with "total = stat_value" for "total += stat_value"
FillStep_Replace(df_dates, st, ev) ==
    LET matches == Matches(df_dates, ev[1])
    IN  IF matches = {}
        THEN st
        ELSE LET idx == FirstIndex(matches)
                 pre == IF idx - 1 >= st.last_idx
                        THEN {i \in DOMAIN df_dates : st.last_idx <= i /\ i <= idx - 1}
                        ELSE {}
                 total == ev[2]
             IN  [total    |-> total,
                  last_idx |-> idx + 1,
                  column   |-> [i \in DOMAIN df_dates |->
                                   IF i = idx THEN total
                                   ELSE IF i \in pre THEN st.total
                                   ELSE st.column[i]],
                  assigned |-> st.assigned \cup pre \cup {idx}]

\* FillStep without the fill of the positions before the matched index
FillStep_NoGapFill(df_dates, st, ev) ==
    LET matches == Matches(df_dates, ev[1])
    IN  IF matches = {}
        THEN st
        ELSE LET idx == FirstIndex(matches)
                 total == st.total + ev[2]
             IN  [total    |-> total,
                  last_idx |-> idx + 1,
                  column   |-> [st.column EXCEPT ![idx] = total],
                  assigned |-> st.assigned \cup {idx}]

\* FillStep that adds the value of an event it cannot place
FillStep_CountUnmatched(df_dates, st, ev) ==
    LET matches == Matches(df_dates, ev[1])
    IN  IF matches = {}
        THEN [st EXCEPT !.total = st.total + ev[2]]
        ELSE LET idx == FirstIndex(matches)
                 pre == IF idx - 1 >= st.last_idx
                        THEN {i \in DOMAIN df_dates : st.last_idx <= i /\ i <= idx - 1}
                        ELSE {}
                 total == st.total + ev[2]
             IN  [total    |-> total,
                  last_idx |-> idx + 1,
                  column   |-> [i \in DOMAIN df_dates |->
                                   IF i = idx THEN total
                                   ELSE IF i \in pre THEN st.total
                                   ELSE st.column[i]],
                  assigned |-> st.assigned \cup pre \cup {idx}]

\* one iteration of "for stat_date, stat_value in stat_dates"
FillStep(df_dates, st, ev) ==
    LET matches == Matches(df_dates, ev[1])
    IN  IF matches = {}
        THEN st
        ELSE LET idx == FirstIndex(matches)
                 pre == IF idx - 1 >= st.last_idx
                        THEN {i \in DOMAIN df_dates : st.last_idx <= i /\ i <= idx - 1}
                        ELSE {}
                 total == st.total + ev[2]
             IN  [total    |-> total,
                  last_idx |-> idx + 1,
                  column   |-> [i \in DOMAIN df_dates |->
                                   IF i = idx THEN total
                                   ELSE IF i \in pre THEN st.total
                                   ELSE st.column[i]],
                  assigned |-> st.assigned \cup pre \cup {idx}]

\* FillTail that leaves the positions after the last event as they are
FillTail_Skip(df_dates, st) == st

\* FillTail that starts one position late
FillTail_OffByOne(df_dates, st) ==
    IF st.last_idx < DfLen(df_dates)
    THEN LET rest == {i \in DOMAIN df_dates : i > st.last_idx}
         IN  [st EXCEPT !.column   = [i \in DOMAIN df_dates |->
                                         IF i \in rest THEN st.total ELSE st.column[i]],
                        !.assigned = st.assigned \cup rest]
    ELSE st

\* the fill after the loop: "if last_idx < len(df): df.loc[last_idx:, player] = total"
FillTail(df_dates, st) ==
    IF st.last_idx < DfLen(df_dates)
    THEN LET rest == {i \in DOMAIN df_dates : i >= st.last_idx}
         IN  [st EXCEPT !.column   = [i \in DOMAIN df_dates |->
                                         IF i \in rest THEN st.total ELSE st.column[i]],
                        !.assigned = st.assigned \cup rest]
    ELSE st

RECURSIVE FillLoop(_, _, _)
FillLoop(df_dates, st, stat_dates) ==
    IF stat_dates = <<>>
    THEN st
    ELSE FillLoop(df_dates, FillStep(df_dates, st, Head(stat_dates)), Tail(stat_dates))

\* update_cumulative(df, player, stat_dates) on a column that was just set to 0
update_cumulative(df_dates, stat_dates) ==
    FillTail(df_dates, FillLoop(df_dates, FillStart(df_dates), stat_dates)).column

(***************************************************************************)
(* extract_player_stat_from_boxscore                                       *)
(*                                                                         *)
(* A box score is [away, home], each the list of that team's player        *)
(* entries in dictionary order.  A player entry keeps what the function    *)
(* reads: fullName, the position abbreviation (None when missing) and,     *)
(* for each of stats['batting'] and stats['pitching'], the entry of the    *)
(* requested stat_type:                                                    *)
(*   "absent"  stat_type is not a key (or the category is missing)         *)
(*   "null"    the key is there and holds None                             *)
(*   "bad"     it holds something float() rejects (".---", "-.--")         *)
(*   "num"     it holds a number or numeric string; val is float() of it   *)
(***************************************************************************)
Absent == [kind |-> "absent", val |-> 0]
Null == [kind |-> "null", val |-> 0]
Bad == [kind |-> "bad", val |-> 0]
Num(v) == [kind |-> "num", val |-> v]

\* A Python string is the sequence of its characters: "Cal" is <<"C", "a", "l">>
\* and "" is <<>>.

\* str.lower() of one character: the ASCII capitals map to their small letters,
\* every other character of the explored strings is left as it is
LowerChar(c) ==
    CASE c = "A" -> "a"
      [] c = "B" -> "b"
      [] c = "C" -> "c"
      [] c = "D" -> "d"
      [] c = "E" -> "e"
      [] c = "F" -> "f"
      [] c = "G" -> "g"
      [] c = "H" -> "h"
      [] c = "I" -> "i"
      [] c = "J" -> "j"
      [] c = "K" -> "k"
      [] c = "L" -> "l"
      [] c = "M" -> "m"
      [] c = "N" -> "n"
      [] c = "O" -> "o"
      [] c = "P" -> "p"
      [] c = "Q" -> "q"
      [] c = "R" -> "r"
      [] c = "S" -> "s"
      [] c = "T" -> "t"
      [] c = "U" -> "u"
      [] c = "V" -> "v"
      [] c = "W" -> "w"
      [] c = "X" -> "x"
      [] c = "Y" -> "y"
      [] c = "Z" -> "z"
      [] OTHER -> c

\* str.lower()
Lower(name) == [i \in 1..Len(name) |-> LowerChar(name[i])]

\* the strings that occur as names
Judge == <<"J", "u", "d", "g", "e">>
JudgeUpper == <<"J", "U", "D", "G", "E">>
JudgeLower == <<"j", "u", "d", "g", "e">>
Raleigh == <<"R", "a", "l", "e", "i", "g", "h">>
Ohtani == <<"O", "h", "t", "a", "n", "i">>
Betts == <<"B", "e", "t", "t", "s">>

\* "stat_type in category_stats and category_stats[stat_type] is not None"
PresentNotNone(entry) == entry.kind # "absent" /\ entry.kind # "null"

\* float(x) returns (otherwise it raises ValueError or TypeError)
FloatOk(entry) == entry.kind = "num"

\* the inner loop over one team's players: the first entry whose name matches.
\* player_data is <<>> for Python's None and <<entry>> once a player is found.
RECURSIVE FindInTeam(_, _)
FindInTeam(players, player_name) ==
    IF players = <<>> THEN <<>>
    ELSE IF Lower(Head(players).fullName) = Lower(player_name) THEN <<Head(players)>>
    ELSE FindInTeam(Tail(players), player_name)

\* for team in ['away', 'home']: ... break at the first match
FindPlayer(boxscore_data, player_name) ==
    LET in_away == FindInTeam(boxscore_data.away, player_name)
    IN  IF in_away # <<>> THEN in_away ELSE FindInTeam(boxscore_data.home, player_name)

\* the fallback loop over [batting_stats, pitching_stats]
RECURSIVE FallbackScan(_)
FallbackScan(categories) ==
    IF categories = <<>> THEN 0
    ELSE LET entry == Head(categories)
         IN  IF PresentNotNone(entry) /\ FloatOk(entry) /\ entry.val > 0
             THEN entry.val
             ELSE FallbackScan(Tail(categories))

\* StatOfPlayer that takes batting as the primary category of every position
StatOfPlayer_BattingPrimary(player_data) ==
    LET primary == player_data.batting
    IN  IF PresentNotNone(primary) /\ FloatOk(primary)
        THEN primary.val
        ELSE FallbackScan(<<player_data.batting, player_data.pitching>>)

\* the part after the player was found: primary category by position, then fallback
StatOfPlayer(player_data) ==
    LET primary == IF player_data.position = "P"
                   THEN player_data.pitching
                   ELSE player_data.batting
    IN  IF PresentNotNone(primary) /\ FloatOk(primary)
        THEN primary.val
        ELSE FallbackScan(<<player_data.batting, player_data.pitching>>)

extract_player_stat_from_boxscore(boxscore_data, player_name) ==
    LET player_data == FindPlayer(boxscore_data, player_name)
    IN  IF player_data = <<>> THEN 0 ELSE StatOfPlayer(player_data[1])

(***************************************************************************)
(* get_player_stats_from_schedule                                          *)
(*                                                                         *)
(* A game of a schedule is [game_date, game_type]; a game of a player's    *)
(* team schedule also carries what statsapi.boxscore_data(game_id) does:   *)
(* fetch_ok = FALSE when it raises, else box is the box score returned.    *)
(***************************************************************************)
\* RegularSeason without the filter
RegularSeason_All(schedule) == schedule

\* [game for game in schedule if game['game_type'] == 'R']
RegularSeason(schedule) == SelectSeq(schedule, LAMBDA game : game.game_type = "R")

\* the loop over the games: a raising game is skipped, a value > 0 is appended
RECURSIVE StatDatesOf(_, _)
StatDatesOf(games, player_name) ==
    IF games = <<>> THEN <<>>
    ELSE LET game == Head(games)
             rest == StatDatesOf(Tail(games), player_name)
         IN  IF ~game.fetch_ok THEN rest
             ELSE LET stat_value == extract_player_stat_from_boxscore(game.box, player_name)
                  IN  IF stat_value > 0
                      THEN <<<<game.game_date, stat_value>>>> \o rest
                      ELSE rest

get_player_stats_from_schedule(team_schedule, player_name) ==
    StatDatesOf(RegularSeason(team_schedule), player_name)

(***************************************************************************)
(* create_cumulative_stats_graph                                           *)
(*                                                                         *)
(* A table (DataFrame) is [Date, cols]: the date axis and the player       *)
(* columns by name.  The pickle file at df_path is <<>> when it does not   *)
(* exist and <<table>> when it does.                                       *)
(***************************************************************************)
CURRENT_SEASON == 2026

Range(seq) == {seq[n] : n \in 1..Len(seq)}

\* NewPlayers that takes every requested player
NewPlayers_All(player_names, df) == player_names

\* [player for player in player_names if player not in df.columns]
NewPlayers(player_names, df) ==
    SelectSeq(player_names, LAMBDA player : player \notin DOMAIN df.cols)

\* for player in players: df[player] = 0; fetch; update_cumulative(df, player, stat_dates)
\* team_schedule[player] is what statsapi.schedule returns for the player's team
RECURSIVE FillPlayers(_, _, _)
FillPlayers(df, players, team_schedule) ==
    IF players = <<>> THEN df
    ELSE LET player == Head(players)
             stat_dates == get_player_stats_from_schedule(team_schedule[player], player)
             column == update_cumulative(df.Date, stat_dates)
         IN  FillPlayers([df EXCEPT !.cols = (player :> column) @@ df.cols],
                         Tail(players), team_schedule)

\* the else branch from the filtered schedule on (the schedule has a game)
NewTable(regular, player_names, team_schedule) ==
    LET dates == DateRange(regular[1].game_date, regular[Len(regular)].game_date)
        df == [Date |-> dates, cols |-> [player \in Range(player_names) |-> ZeroColumn(dates)]]
    IN  FillPlayers(df, player_names, team_schedule)

\* SaveConfirmed that keeps the file whatever the answer
SaveConfirmed_Always(save_or_delete) == TRUE

\* save_or_delete.lower() == 'y' or not save_or_delete
SaveConfirmed(save_or_delete) == Lower(save_or_delete) = <<"y">> \/ save_or_delete = <<>>

(***************************************************************************)
(* State                                                                   *)
(***************************************************************************)
VARIABLES
    \* update_cumulative, stepped event by event
    df_dates,       \* df['Date']
    stat_dates,     \* the argument: list of (stat_date, stat_value)
    k,              \* number of events the loop has consumed
    fill,           \* [total, last_idx, column, assigned]
    fpc,            \* "loop" | "done"   ("off" outside SpecFill)
    \* extract_player_stat_from_boxscore
    boxscore_data,  \* the argument
    player_name,    \* the argument
    result,         \* the value returned
    bpc,            \* "call" | "returned"   ("off" outside SpecBox)
    \* create_cumulative_stats_graph, run after run on one (stat_type, season)
    season,         \* the season argument; names the pickle file with stat_type
    store,          \* the file at df_path: <<>> or <<table>>
    df,             \* the function's DataFrame: <<>> or <<table>>
    rpc,            \* "start" | "prompt" | "done" | "error"   ("off" outside SpecRun)
    branch,         \* "none" | "load" | "create": the branch of "if os.path.exists(df_path)"
    loaded,         \* what pickle.load returned in this run (<<>> when nothing was loaded)
    fetched,        \* players get_player_stats_from_schedule was called for in this run
    sched,          \* what statsapi.schedule returned for the axis in this run
    raised,         \* the exception that ended the run, None if none
    answer          \* what input("Save Data? (y/n): ") returned

fillVars == <<df_dates, stat_dates, k, fill, fpc>>
boxVars == <<boxscore_data, player_name, result, bpc>>
runVars == <<season, store, df, rpc, branch, loaded, fetched, sched, raised, answer>>

vars == <<fillVars, boxVars, runVars>>

FillOff ==
    /\ df_dates = DateRange(1, 1)
    /\ stat_dates = <<>>
    /\ k = 0
    /\ fill = FillStart(df_dates)
    /\ fpc = "off"

BoxOff ==
    /\ boxscore_data = [away |-> <<>>, home |-> <<>>]
    /\ player_name = <<>>
    /\ result = 0
    /\ bpc = "off"

RunOff ==
    /\ season = CURRENT_SEASON
    /\ store = <<>>
    /\ df = <<>>
    /\ rpc = "off"
    /\ branch = "none"
    /\ loaded = <<>>
    /\ fetched = {}
    /\ sched = <<>>
    /\ raised = None
    /\ answer = <<>>

RECURSIVE SeqsUpTo(_, _)
SeqsUpTo(S, n) ==
    IF n = 0 THEN {<<>>}
    ELSE LET shorter == SeqsUpTo(S, n - 1)
         IN  shorter \cup {Append(s, x) : s \in {t \in shorter : Len(t) = n - 1}, x \in S}

(***************************************************************************)
(* Specification of update_cumulative                                      *)
(***************************************************************************)
EventDates == 0..(AxisLen + 1)
Events == EventDates \X StatValues

InitFill ==
    /\ df_dates = DateRange(1, AxisLen)
    /\ stat_dates \in SeqsUpTo(Events, MaxEvents)
    /\ k = 0
    /\ fill = FillStart(df_dates)
    /\ fpc = "loop"
    /\ BoxOff
    /\ RunOff

\* an iteration whose date matches no axis date: the warning and "continue"
EventSkip ==
    /\ fpc = "loop"
    /\ k < Len(stat_dates)
    /\ Matches(df_dates, stat_dates[k + 1][1]) = {}
    /\ fill' = FillStep(df_dates, fill, stat_dates[k + 1])
    /\ k' = k + 1
    /\ UNCHANGED <<df_dates, stat_dates, fpc, boxVars, runVars>>

\* an iteration whose date is on the axis
EventApply ==
    /\ fpc = "loop"
    /\ k < Len(stat_dates)
    /\ Matches(df_dates, stat_dates[k + 1][1]) # {}
    /\ fill' = FillStep(df_dates, fill, stat_dates[k + 1])
    /\ k' = k + 1
    /\ UNCHANGED <<df_dates, stat_dates, fpc, boxVars, runVars>>

\* the loop is exhausted: the trailing fill, then return
TailFill ==
    /\ fpc = "loop"
    /\ k = Len(stat_dates)
    /\ fill' = FillTail(df_dates, fill)
    /\ fpc' = "done"
    /\ UNCHANGED <<df_dates, stat_dates, k, boxVars, runVars>>

NextFill == EventSkip \/ EventApply \/ TailFill

SpecFill == InitFill /\ [][NextFill]_vars

(***************************************************************************)
(* Specification of extract_player_stat_from_boxscore                      *)
(*                                                                         *)
(* The box scores explored: every roster of up to MaxRoster names per      *)
(* team; one entry of the box takes every position and every pair of       *)
(* batting/pitching entries, the other entries are a fixed pitcher's line. *)
(***************************************************************************)
BoxNames == {Judge, JudgeUpper, Raleigh}
RequestNames == {JudgeLower, Raleigh}
Positions == {"P", "RF", None}
StatEntries == {Absent, Null, Bad} \cup {Num(v) : v \in {-1, 0, 1, 2}}

PlayerEntry(name, position, batting, pitching) ==
    [fullName |-> name, position |-> position, batting |-> batting, pitching |-> pitching]

OtherEntry(name) == PlayerEntry(name, "P", Num(1), Num(2))

InitBox ==
    /\ \E away_names \in SeqsUpTo(BoxNames, MaxRoster),
          home_names \in SeqsUpTo(BoxNames, MaxRoster) :
         \E slot \in {<<"none", 0>>}
                       \cup {<<"away", i>> : i \in 1..Len(away_names)}
                       \cup {<<"home", i>> : i \in 1..Len(home_names)},
            position \in Positions, batting \in StatEntries, pitching \in StatEntries :
              boxscore_data =
                [away |-> [i \in 1..Len(away_names) |->
                             IF slot = <<"away", i>>
                             THEN PlayerEntry(away_names[i], position, batting, pitching)
                             ELSE OtherEntry(away_names[i])],
                 home |-> [i \in 1..Len(home_names) |->
                             IF slot = <<"home", i>>
                             THEN PlayerEntry(home_names[i], position, batting, pitching)
                             ELSE OtherEntry(home_names[i])]]
    /\ player_name \in RequestNames
    /\ result = 0
    /\ bpc = "call"
    /\ FillOff
    /\ RunOff

Extract ==
    /\ bpc = "call"
    /\ result' = extract_player_stat_from_boxscore(boxscore_data, player_name)
    /\ bpc' = "returned"
    /\ UNCHANGED <<boxscore_data, player_name, fillVars, runVars>>

NextBox == Extract

SpecBox == InitBox /\ [][NextBox]_vars

(***************************************************************************)
(* Specification of create_cumulative_stats_graph                          *)
(*                                                                         *)
(* The data source: statsapi answers from one of two snapshots of the      *)
(* season.  Each player's team schedule has a spring game, a game whose    *)
(* box score cannot be fetched, a game without the stat and a game dated   *)
(* after the last explored axis day among its games.                       *)
(***************************************************************************)
Players == {Judge, Raleigh, Ohtani}
Seasons == {CURRENT_SEASON - 1, CURRENT_SEASON}
ApiSnapshots == {"may", "october"}
Answers == {<<"y">>, <<"Y">>, <<>>, <<"n">>, <<"N">>, <<"Y", "E", "S">>}

\* player_names: the lists of distinct players, and one that names a player twice
NameLists ==
    {names \in SeqsUpTo(Players, Cardinality(Players)) :
        \A m, n \in 1..Len(names) : m # n => names[m] # names[n]}
    \cup {<<Judge, Raleigh, Judge>>}

\* the schedules statsapi.schedule returns for the axis: chronological
Schedules ==
    {schedule \in SeqsUpTo([game_date : 1..MaxDay, game_type : {"R", "S"}], MaxSched) :
        \A m, n \in 1..Len(schedule) :
            m < n => schedule[m].game_date <= schedule[n].game_date}

BoxWith(player, position, batting, pitching) ==
    [away |-> <<OtherEntry(Betts)>>,
     home |-> <<PlayerEntry(player, position, batting, pitching)>>]

Game(date, type, box) ==
    [game_date |-> date, game_type |-> type, fetch_ok |-> TRUE, box |-> box]

FailedGame(date, type) ==
    [game_date |-> date, game_type |-> type, fetch_ok |-> FALSE,
     box |-> [away |-> <<>>, home |-> <<>>]]

TeamSchedule(api, player) ==
    CASE api = "may" /\ player = Judge ->
           << Game(1, "R", BoxWith(player, "RF", Num(1), Absent)),
              Game(2, "R", BoxWith(player, "RF", Num(0), Absent)),
              Game(MaxDay, "R", BoxWith(player, "RF", Num(2), Absent)) >>
      [] api = "may" /\ player = Raleigh ->
           << Game(1, "S", BoxWith(player, "C", Num(2), Absent)),
              Game(2, "R", BoxWith(player, "C", Num(1), Absent)),
              FailedGame(MaxDay, "R") >>
      [] api = "may" /\ player = Ohtani ->
           << Game(2, "R", BoxWith(player, "P", Num(1), Num(2))),
              Game(MaxDay + 1, "R", BoxWith(player, "P", Num(1), Num(1))) >>
      [] api = "october" /\ player = Judge ->
           << Game(1, "R", BoxWith(player, "RF", Num(2), Absent)),
              Game(2, "R", BoxWith(player, "RF", Num(2), Absent)) >>
      [] api = "october" /\ player = Ohtani ->
           << Game(1, "R", BoxWith(player, "P", Absent, Num(1))) >>
      [] OTHER -> <<>>

InitRun ==
    /\ season \in Seasons
    /\ store = <<>>
    /\ df = <<>>
    /\ rpc = "start"
    /\ branch = "none"
    /\ loaded = <<>>
    /\ fetched = {}
    /\ sched = <<>>
    /\ raised = None
    /\ answer = <<>>
    /\ FillOff
    /\ BoxOff

\* create_cumulative_stats_graph up to the prompt (or up to the exception)
Run ==
    /\ rpc = "start"
    /\ \E player_names \in NameLists, api \in ApiSnapshots :
         LET \* a stored table of the current season is removed first
             existing == IF season = CURRENT_SEASON THEN <<>> ELSE store
             team_schedule == [player \in Players |-> TeamSchedule(api, player)]
         IN  IF existing # <<>>
             THEN LET new_players == NewPlayers(player_names, existing[1])
                      merged == FillPlayers(existing[1], new_players, team_schedule)
                  IN  /\ df' = <<merged>>
                      /\ store' = <<merged>>
                      /\ rpc' = "prompt"
                      /\ branch' = "load"
                      /\ loaded' = existing
                      /\ fetched' = Range(new_players)
                      /\ sched' = <<>>
                      /\ raised' = None
             ELSE \E schedule \in Schedules :
                    LET regular == RegularSeason(schedule)
                    IN  /\ branch' = "create"
                        /\ loaded' = <<>>
                        /\ sched' = schedule
                        /\ IF regular = <<>>
                           THEN \* schedule[0] raises; nothing was built or written
                                /\ df' = <<>>
                                /\ store' = existing
                                /\ rpc' = "error"
                                /\ fetched' = {}
                                /\ raised' = "IndexError"
                           ELSE LET table == NewTable(regular, player_names, team_schedule)
                                IN  /\ df' = <<table>>
                                    /\ store' = <<table>>
                                    /\ rpc' = "prompt"
                                    /\ fetched' = Range(player_names)
                                    /\ raised' = None
    /\ UNCHANGED <<season, answer, fillVars, boxVars>>

\* the prompt is answered: the file is kept or removed, and the function returns
Answer ==
    /\ rpc = "prompt"
    /\ \E save_or_delete \in Answers :
         /\ answer' = save_or_delete
         /\ store' = IF SaveConfirmed(save_or_delete) THEN store ELSE <<>>
    /\ rpc' = "done"
    /\ UNCHANGED <<season, df, branch, loaded, fetched, sched, raised, fillVars, boxVars>>

\* the process ends; only the file outlives it
Exit ==
    /\ rpc \in {"done", "error"}
    /\ rpc' = "start"
    /\ df' = <<>>
    /\ branch' = "none"
    /\ loaded' = <<>>
    /\ fetched' = {}
    /\ sched' = <<>>
    /\ raised' = None
    /\ answer' = <<>>
    /\ UNCHANGED <<season, store, fillVars, boxVars>>

NextRun == Run \/ Answer \/ Exit

SpecRun == InitRun /\ [][NextRun]_vars

(***************************************************************************)
(* Properties of update_cumulative                                         *)
(***************************************************************************)
Done == fpc = "done"

OnAxis(ev) == Matches(df_dates, ev[1]) # {}

AllOnAxis == \A n \in 1..Len(stat_dates) : OnAxis(stat_dates[n])

SortedByDate ==
    \A m, n \in 1..Len(stat_dates) : m < n => stat_dates[m][1] <= stat_dates[n][1]

RECURSIVE SumValues(_)
SumValues(evs) == IF evs = <<>> THEN 0 ELSE Head(evs)[2] + SumValues(Tail(evs))

\* the events dated on or before d, in sequence order
UpTo(evs, d) == SelectSeq(evs, LAMBDA ev : ev[1] <= d)

\* the sequence without its n-th element
RemoveAt(evs, n) == SubSeq(evs, 1, n - 1) \o SubSeq(evs, n + 1, Len(evs))

\* C1: counting stat, gap-free axis, events sorted ascending and all on the
\* axis: the column at every axis date d is the sum of the values of the
\* events dated on or before d (0 before the first event).
C1_CumulativeSum ==
    (Done /\ SortedByDate /\ AllOnAxis) =>
        \A i \in DOMAIN df_dates :
            fill.column[i] = SumValues(UpTo(stat_dates, df_dates[i]))

\* the scenario of the spec: events [(D2,1),(D4,2)] on a 5-day axis give [0,1,1,3,3]
C1_Witness ==
    /\ Done
    /\ stat_dates = <<<<2, 1>>, <<4, 2>>>>
    /\ fill.column = [i \in 0..4 |-> IF i = 0 THEN 0 ELSE IF i <= 2 THEN 1 ELSE 3]

\* the running value of a gauge: a reading replaces it, except that a reading
\* of exactly 0 after a nonzero running value keeps the prior value
RECURSIVE GaugeFold(_, _)
GaugeFold(running, evs) ==
    IF evs = <<>>
    THEN running
    ELSE GaugeFold(IF Head(evs)[2] = 0 /\ running > 0 THEN running ELSE Head(evs)[2],
                   Tail(evs))

\* C2: for a gauge stat the column holds at every axis date the last observed
\* reading at or before it (replaced at an event, not added; a 0 reading after
\* a nonzero one keeps the prior value).
C2_GaugeLastReading ==
    (Done /\ SortedByDate /\ AllOnAxis) =>
        \A i \in DOMAIN df_dates :
            fill.column[i] = GaugeFold(0, UpTo(stat_dates, df_dates[i]))

\* C3 as stated: for axis dates d1 < d2 with no event dated strictly between
\* them, column[d2] = column[d1].
C3_CarryForwardStrictlyBetween ==
    Done =>
        \A i, j \in DOMAIN df_dates :
            (/\ i < j
             /\ \A n \in 1..Len(stat_dates) :
                    ~(df_dates[i] < stat_dates[n][1] /\ stat_dates[n][1] < df_dates[j]))
            => fill.column[j] = fill.column[i]

\* C3 amended: for axis dates d1 < d2 with no event dated after d1 and on or
\* before d2, column[d2] = column[d1].
C3_CarryForward ==
    Done =>
        \A i, j \in DOMAIN df_dates :
            (/\ i < j
             /\ \A n \in 1..Len(stat_dates) :
                    ~(df_dates[i] < stat_dates[n][1] /\ stat_dates[n][1] <= df_dates[j]))
            => fill.column[j] = fill.column[i]

\* a nonzero total carried across off-days between two events and after the last
C3_Witness ==
    /\ Done
    /\ Len(stat_dates) = 2
    /\ stat_dates[1][1] = 1 /\ stat_dates[1][2] > 0
    /\ stat_dates[2][1] = 4 /\ stat_dates[2][2] > 0
    /\ fill.column[2] = fill.column[0] /\ fill.column[0] > 0
    /\ fill.column[4] = fill.column[3] /\ fill.column[3] > fill.column[0]

\* C6: an event whose date is on no axis date changes neither the running
\* total, the last-assigned index nor the column; the events after it are
\* still applied, and the finished column is the column of the same sequence
\* with that event removed.
C6_SkipOffAxis ==
    /\ [][(fpc = "loop" /\ k' = k + 1 /\ ~OnAxis(stat_dates[k + 1])) => fill' = fill]_vars
    /\ [](Done =>
            \A n \in 1..Len(stat_dates) :
                ~OnAxis(stat_dates[n]) =>
                    fill.column = update_cumulative(df_dates, RemoveAt(stat_dates, n)))

\* an off-axis event with a value, followed by an on-axis event that was applied
C6_Witness ==
    /\ Done
    /\ Len(stat_dates) = 3
    /\ OnAxis(stat_dates[1]) /\ stat_dates[1][2] = 1
    /\ stat_dates[2][1] = AxisLen + 1 /\ stat_dates[2][2] = 2
    /\ OnAxis(stat_dates[3]) /\ stat_dates[3][2] = 1
    /\ stat_dates[3][1] > stat_dates[1][1]
    /\ fill.total = 2
    /\ fill.column[DfLen(df_dates) - 1] = 2

\* C8: with non-negative event values the column never decreases along the axis.
C8_Monotone ==
    (Done /\ \A n \in 1..Len(stat_dates) : stat_dates[n][2] >= 0) =>
        \A i, j \in DOMAIN df_dates : i <= j => fill.column[i] <= fill.column[j]

\* a column that rises twice
C8_Witness ==
    /\ Done
    /\ \E i, j \in DOMAIN df_dates :
          /\ i < j
          /\ 0 < fill.column[i]
          /\ fill.column[i] < fill.column[j]
          /\ fill.column[0] = 0

\* C9: when the fill returns, the column has one entry per axis date and every
\* axis position was written by the fill; with no events the column is all 0.
C9_FullCoverage ==
    Done =>
        /\ DOMAIN fill.column = DOMAIN df_dates
        /\ fill.assigned = DOMAIN df_dates
        /\ (stat_dates = <<>> => \A i \in DOMAIN df_dates : fill.column[i] = 0)

\* the fill finished after an event in the middle of the axis
C9_Witness ==
    /\ Done
    /\ Len(stat_dates) = 1
    /\ stat_dates[1][1] = 3
    /\ fill.last_idx = 3
    /\ fill.assigned = 0..(AxisLen - 1)

(***************************************************************************)
(* Properties of create_cumulative_stats_graph                             *)
(***************************************************************************)
AfterMerge == rpc = "prompt" /\ branch = "load"

Declined == answer \notin {<<"y">>, <<"Y">>, <<>>}

\* C4: after a stored table was loaded and columns were added for the requested
\* players that had none, the date axis and every column of the loaded table
\* have the values they had before, in the DataFrame and in the file, and no
\* events were fetched for a player who had a column.
C4_MergeNonInterference ==
    AfterMerge =>
        /\ store = df
        /\ df[1].Date = loaded[1].Date
        /\ \A player \in DOMAIN loaded[1].cols :
              /\ player \in DOMAIN df[1].cols
              /\ df[1].cols[player] = loaded[1].cols[player]
        /\ fetched \cap DOMAIN loaded[1].cols = {}

\* a third player merged into a stored two-player table with a nonzero column
C4_Witness ==
    /\ AfterMerge
    /\ DOMAIN loaded[1].cols = {Judge, Raleigh}
    /\ \E i \in DOMAIN loaded[1].Date : loaded[1].cols[Judge][i] > 0
    /\ fetched = {Ohtani}
    /\ \E i \in DOMAIN df[1].Date : df[1].cols[Ohtani][i] > 0

\* C5 as stated: when the user declines after a merge, the added columns are
\* discarded and the stored table is again the table stored before the run.
C5_DeclineRevertsToPreMerge ==
    (rpc = "done" /\ branch = "load" /\ fetched # {} /\ Declined) => store = loaded

\* C5 amended: the merged table is written to the file before the prompt, and
\* when the user declines after a merge the file is removed: no table is
\* stored any more, neither the added columns nor the ones stored before.
C5_DeclineDeletesStore ==
    /\ (AfterMerge /\ fetched # {}) =>
          (store = df /\ DOMAIN df[1].cols = DOMAIN loaded[1].cols \cup fetched)
    /\ (rpc = "done" /\ branch = "load" /\ fetched # {} /\ Declined) => store = <<>>

\* the user declined after a merge into a stored table
C5_Witness ==
    /\ rpc = "done"
    /\ branch = "load"
    /\ loaded # <<>>
    /\ fetched # {}
    /\ answer = <<"n">>
    /\ store = <<>>

\* C7: when no stored table is used and the schedule for the axis has no
\* regular-season game, the run ends with an error raised to the caller, no
\* table was built and none is stored.
C7_EmptyScheduleFails ==
    /\ (branch = "create" /\ \A n \in 1..Len(sched) : sched[n].game_type # "R") =>
          (rpc = "error" /\ raised # None /\ df = <<>> /\ store = <<>>)
    /\ rpc = "error" => (branch = "create" /\ df = <<>> /\ store = <<>>)

\* the schedule had games, none of the regular season
C7_Witness ==
    /\ rpc = "error"
    /\ Len(sched) = 2
    /\ sched[1].game_type = "S"
    /\ season = CURRENT_SEASON - 1
    /\ store = <<>>

(***************************************************************************)
(* Properties of extract_player_stat_from_boxscore                         *)
(***************************************************************************)
\* the entries of the box, away before home, that carry the requested name
Candidates ==
    SelectSeq(boxscore_data.away \o boxscore_data.home,
              LAMBDA entry : Lower(entry.fullName) = Lower(player_name))

PrimaryOf(entry) == IF entry.position = "P" THEN entry.pitching ELSE entry.batting

ScannedOf(entry) == <<entry.batting, entry.pitching>>

FirstValueOr0(entries) == IF entries = <<>> THEN 0 ELSE entries[1].val

\* C10 as stated: the primary category's value is returned whenever the stat is
\* present and non-null there; otherwise the first present non-zero value of
\* the categories; 0 when there is none or the player is not in the box score.
C10_PrimaryThenFirstNonZero ==
    bpc = "returned" =>
        IF Candidates = <<>> THEN result = 0
        ELSE LET primary == PrimaryOf(Candidates[1])
             IN  IF primary.kind \notin {"absent", "null"}
                 THEN primary.kind = "num" /\ result = primary.val
                 ELSE result = FirstValueOr0(SelectSeq(ScannedOf(Candidates[1]),
                                   LAMBDA e : e.kind = "num" /\ e.val # 0))

\* C10 amended: the primary category's value is returned when the stat is
\* present, non-null and numeric there; when the primary category lacks the
\* stat, holds null or holds a value that is not a number, batting and then
\* pitching are scanned and the first numeric value greater than 0 is
\* returned; 0 when there is none or the player is not in the box score.
C10_PrimaryThenFirstPositive ==
    bpc = "returned" =>
        IF Candidates = <<>> THEN result = 0
        ELSE LET primary == PrimaryOf(Candidates[1])
             IN  IF primary.kind = "num"
                 THEN result = primary.val
                 ELSE result = FirstValueOr0(SelectSeq(ScannedOf(Candidates[1]),
                                   LAMBDA e : e.kind = "num" /\ e.val > 0))

\* a pitcher whose pitching entry is null and whose batting entry is returned,
\* found in the home team behind an away player of another name
C10_Witness ==
    /\ bpc = "returned"
    /\ Len(boxscore_data.away) = 1
    /\ Len(boxscore_data.home) = 1
    /\ Candidates # <<>>
    /\ Candidates[1] = boxscore_data.home[1]
    /\ Candidates[1].position = "P"
    /\ Candidates[1].pitching = Null
    /\ Candidates[1].batting = Num(2)
    /\ result = 2

====
